---------------------------- MODULE Spec2Model ----------------------------
(***************************************************************************)
(* Model of the Tetris game of tetris_frontend: the pure engine            *)
(* (src/tetris_frontend/src/tetris/engine.ts) and the game component       *)
(* (src/tetris_frontend/src/components/TetrisGame.tsx, with its touch      *)
(* variant src/unnamed/part_001).                                          *)
(*                                                                         *)
(* The component is a React function component.  Its state is the seven    *)
(* useState cells and the two refs; each handler (timer callback, key or   *)
(* touch listener) is a closure over the values of the render it was       *)
(* created in.  One action of the model is one handler run to completion,  *)
(* followed by the re-render and the effects the re-render triggers: the   *)
(* falling-timer effect cancels fallTimer and arms a new one with the new  *)
(* render's `fall`.  The listeners are always those of the latest render.  *)
(*                                                                         *)
(* Time is not a variable.  The timeouts set outside fallTimer (the        *)
(* deferred fall of a hard drop, 20 ms or 26 ms, and the deferred spawn    *)
(* of a lock, 10 ms) are kept in `pending`, ordered by due time.  The      *)
(* gravity timer has a delay of at least 40 ms and is re-armed by every    *)
(* handler that sets one of those timeouts, so it is due after all of      *)
(* them: it fires only when `pending` is empty.                            *)
(*                                                                         *)
(* Coordinates are 0-based as in the source; sequences are 1-based, so     *)
(* board[by][bx] of the source is board[by + 1][bx + 1] here.              *)
(* flashGameOver and its 400 ms timeout only colour the overlay and are    *)
(* left out.                                                               *)
(***************************************************************************)
EXTENDS Integers, Sequences, FiniteSets, TLC

VARIABLES
    board,          \* useState<Board>
    piece,          \* useState<PieceState | null>
    nextPieceType,  \* useState<TetrominoType | null>
    score,          \* useState(0)
    lines,          \* useState(0)
    level,          \* useState(START_LEVEL)
    status,         \* useState<GameStatus>
    rng,            \* rngRef.current: the state word `a` of the Mulberry32 closure
    bag,            \* bagRef.current: the `bag` array of the createBagRNG closure
    fallTimer,      \* fallTimer.current: the armed gravity timeout (its closure) or NoTimer
    pending,        \* the other timeouts, in the order they come due
    inputs,         \* number of input events so far (bounded by MaxInputs)
    fired,          \* number of timer callbacks run so far (bounded by MaxTimers)
    session,        \* history: number of restarts (runs of initGame after the mount)
    last,           \* history: what the handler that ran last did
    mountSeed,      \* history: the seed of the mount, Date.now() % 654321
    call,           \* the arguments of the engine call under study
    ret             \* what the engine call under study returned

vars == <<board, piece, nextPieceType, score, lines, level, status, rng, bag,
          fallTimer, pending, inputs, fired, session, last, mountSeed,
          call, ret>>

(***************************************************************************)
(* Constants of the program.                                               *)
(***************************************************************************)
BOARD_WIDTH == 10
BOARD_HEIGHT == 20
START_LEVEL == 0

LEVEL_SPEEDS == <<800, 700, 600, 500, 400, 350, 300, 260, 220, 180,
                  150, 120, 100, 90, 80, 70, 60, 55, 50, 40>>

TetrominoType == {"I", "O", "T", "S", "Z", "J", "L"}

TETROMINOS ==
    [t \in TetrominoType |->
        CASE t = "I" -> [shape |-> << <<0,0,0,0>>, <<1,1,1,1>>, <<0,0,0,0>>, <<0,0,0,0>> >>,
                         color |-> "#2196F3"]
          [] t = "O" -> [shape |-> << <<1,1>>, <<1,1>> >>, color |-> "#FFEB3B"]
          [] t = "T" -> [shape |-> << <<0,1,0>>, <<1,1,1>>, <<0,0,0>> >>, color |-> "#9C27B0"]
          [] t = "S" -> [shape |-> << <<0,1,1>>, <<1,1,0>>, <<0,0,0>> >>, color |-> "#43A047"]
          [] t = "Z" -> [shape |-> << <<1,1,0>>, <<0,1,1>>, <<0,0,0>> >>, color |-> "#E53935"]
          [] t = "J" -> [shape |-> << <<1,0,0>>, <<1,1,1>>, <<0,0,0>> >>, color |-> "#1565C0"]
          [] t = "L" -> [shape |-> << <<0,0,1>>, <<1,1,1>>, <<0,0,0>> >>, color |-> "#FFA726"] ]

TETROMINO_SEQUENCE == <<"I", "O", "T", "S", "Z", "J", "L">>

getTetromino(type) == TETROMINOS[type]

(***************************************************************************)
(* 32-bit words.  TLC's integers are 32-bit signed, so a word is kept as   *)
(* its two 16-bit halves <<hi, lo>> and every product is split so that no  *)
(* intermediate value exceeds 2^31 - 1.                                    *)
(***************************************************************************)
Pow2(n) == 2 ^ n

RECURSIVE XorBits(_, _)
XorBits(a, b) ==
    IF a = 0 /\ b = 0 THEN 0
    ELSE (((a % 2) + (b % 2)) % 2) + 2 * XorBits(a \div 2, b \div 2)

RECURSIVE OrBits(_, _)
OrBits(a, b) ==
    IF a = 0 /\ b = 0 THEN 0
    ELSE (IF a % 2 = 1 \/ b % 2 = 1 THEN 1 ELSE 0) + 2 * OrBits(a \div 2, b \div 2)

\* a ^ b and a | b on 4-bit digits, tabulated once
XorDigit == [a \in 0..15 |-> [b \in 0..15 |-> XorBits(a, b)]]
OrDigit == [a \in 0..15 |-> [b \in 0..15 |-> OrBits(a, b)]]

\* a ^ b and a | b on 16-bit halves, digit by digit
Xor16(a, b) ==
    XorDigit[a % 16][b % 16]
    + 16 * XorDigit[(a \div 16) % 16][(b \div 16) % 16]
    + 256 * XorDigit[(a \div 256) % 16][(b \div 256) % 16]
    + 4096 * XorDigit[a \div 4096][b \div 4096]

Or16(a, b) ==
    OrDigit[a % 16][b % 16]
    + 16 * OrDigit[(a \div 16) % 16][(b \div 16) % 16]
    + 256 * OrDigit[(a \div 256) % 16][(b \div 256) % 16]
    + 4096 * OrDigit[a \div 4096][b \div 4096]

\* ToInt32 of an integer seed 0 <= s < 2^31 (Date.now() % 654321)
WordOf(s) == <<s \div 65536, s % 65536>>

WXor(a, b) == <<Xor16(a[1], b[1]), Xor16(a[2], b[2])>>

\* c | a for a constant 0 <= c < 65536
WOrLow(c, a) == <<a[1], Or16(c, a[2])>>

\* a >>> n for 0 < n < 16
WShr(a, n) ==
    <<a[1] \div Pow2(n), (a[2] \div Pow2(n)) + ((a[1] % Pow2(n)) * Pow2(16 - n))>>

\* (a + b) | 0
WAdd(a, b) ==
    LET lo == a[2] + b[2]
    IN  <<(a[1] + b[1] + (lo \div 65536)) % 65536, lo % 65536>>

\* the 32-bit product of two 16-bit numbers, as <<hi, lo>>
Mul16(x, y) ==
    LET p0 == (x % 256) * y
        p1 == (x \div 256) * y
        lo == p0 + ((p1 % 256) * 256)
    IN  <<((p1 \div 256) + (lo \div 65536)) % 65536, lo % 65536>>

\* Math.imul(a, b)
Imul(a, b) ==
    LET ll == Mul16(a[2], b[2])
        hl == Mul16(a[1], b[2])
        lh == Mul16(a[2], b[1])
    IN  <<(ll[1] + hl[2] + lh[2]) % 65536, ll[2]>>

\* One call of the function returned by randomSeededRNG, on state word a:
\* the new state word and the returned number, as its numerator over 2^32.
\* (Each step is bound by a one-element set, so that it is computed once.)
Mulberry32(a) ==
    CHOOSE r \in
        {[state |-> a1, value |-> WXor(t2, WShr(t2, 14))] :
            a1 \in {WAdd(a, <<27947, 31221>>)},                   \* a + 0x6d2b79f5 | 0
            t2 \in {WXor(t1, WAdd(t1, Imul(WXor(t1, WShr(t1, 7)), WOrLow(61, t1)))) :
                       t1 \in {Imul(WXor(b, WShr(b, 15)), WOrLow(1, b)) :
                                  b \in {WAdd(a, <<27947, 31221>>)}}}} : TRUE

randomSeededRNG(seed) == WordOf(seed)

\* Math.floor(r * n) for r = value / 2^32 and 1 <= n <= 7
FloorTimes(value, n) == ((value[1] * n) + ((value[2] * n) \div 65536)) \div 65536

\* rng(): one call of a generator.  A generator is the closure of
\* randomSeededRNG, given by its state word <<hi, lo>>, or (for shuffle and
\* createBagRNG on their own) a closure <<values, at, "cycle">> that returns
\* the numbers values[at] / 2^32 in turn, again and again.
CallRng(a) ==
    IF Len(a) = 2 THEN Mulberry32(a)
    ELSE [state |-> <<a[1], (a[2] % Len(a[1])) + 1, a[3]>>, value |-> a[1][a[2]]]

(***************************************************************************)
(* The bag randomizer.                                                     *)
(***************************************************************************)
Swap(array, i, j) == [array EXCEPT ![i] = array[j], ![j] = array[i]]

\* shuffle(array, rng): Fisher-Yates from the last index down to 1 (0-based),
\* drawing one number per step.  i is the 1-based index of the step.
RECURSIVE ShuffleFrom(_, _, _)
ShuffleFrom(array, a, i) ==
    IF i <= 1 THEN [array |-> array, rng |-> a]
    ELSE CHOOSE s \in {ShuffleFrom(Swap(array, i, FloorTimes(r.value, i) + 1),
                                    r.state, i - 1) : r \in {CallRng(a)}} : TRUE

shuffle(array, a) == ShuffleFrom(array, a, Len(array))

\* next() of createBagRNG on bag b and generator state a:
\* the drawn type, the bag and the generator state afterwards.
\* bag.pop(): the last element leaves the array
Pop(s) ==
    [type |-> s.array[Len(s.array)],
     bag  |-> SubSeq(s.array, 1, Len(s.array) - 1),
     rng  |-> s.rng]

\* A next() that refills the bag while one piece is left in it.
BagNextRefillEarly(b, a) ==
    IF Len(b) <= 1
    THEN CHOOSE d \in {Pop(s) : s \in {shuffle(TETROMINO_SEQUENCE, a)}} : TRUE
    ELSE Pop([array |-> b, rng |-> a])

BagNext(b, a) ==
    IF Len(b) = 0
    THEN CHOOSE d \in {Pop(s) : s \in {shuffle(TETROMINO_SEQUENCE, a)}} : TRUE
    ELSE Pop([array |-> b, rng |-> a])

\* createBagRNG(rng): the new closure's empty bag
createBagRNG == <<>>

(***************************************************************************)
(* The grid.                                                               *)
(***************************************************************************)
EmptyCell == [filled |-> FALSE, color |-> "transparent"]

createEmptyBoard(rows, cols) == [y \in 1..rows |-> [x \in 1..cols |-> EmptyCell]]

\* A rotate that writes result[x][N - y]: column 0 keeps its fill of 0 and
\* every row gets a cell at index N.
rotateOffByOne(matrix) ==
    LET N == Len(matrix)
    IN  [x \in 1..N |-> [c \in 1..(N + 1) |-> IF c = 1 THEN 0 ELSE matrix[N + 2 - c][x]]]

\* A rotate that writes result[N - 1 - x][y]: a quarter turn the other way.
rotateCounterClockwise(matrix) ==
    LET N == Len(matrix)
    IN  [x \in 1..N |-> [c \in 1..N |-> matrix[c][N + 1 - x]]]

\* rotate(matrix): result[x][N - 1 - y] = matrix[y][x]
rotate(matrix) ==
    LET N == Len(matrix)
    IN  [x \in 1..N |-> [c \in 1..N |-> matrix[N + 1 - c][x]]]

\* the occupied cells of a shape as offsets <<x, y>>
ShapeCells(shape) ==
    {<<x, y>> \in (0..(Len(shape) - 1)) \X (0..(Len(shape) - 1)) :
        shape[y + 1][x + 1] # 0}

\* An isValidPosition that tests every cell of the matrix, occupied or not.
isValidPositionWholeMatrix(b, shape, pos) ==
    \A c \in (0..(Len(shape) - 1)) \X (0..(Len(shape) - 1)) :
        LET bx == pos.x + c[1]
            by == pos.y + c[2]
        IN  /\ ~(bx < 0 \/ bx >= Len(b[1]) \/ by < 0 \/ by >= Len(b))
            /\ ~b[by + 1][bx + 1].filled

\* An isValidPosition whose floor test is by > board.length: a cell one row
\* below the board passes.
isValidPositionBelowFloor(b, shape, pos) ==
    \A c \in ShapeCells(shape) :
        LET bx == pos.x + c[1]
            by == pos.y + c[2]
        IN  /\ ~(bx < 0 \/ bx >= Len(b[1]) \/ by < 0 \/ by > Len(b))
            /\ by < Len(b) => ~b[by + 1][bx + 1].filled

isValidPosition(b, shape, pos) ==
    \A c \in ShapeCells(shape) :
        LET bx == pos.x + c[1]
            by == pos.y + c[2]
        IN  /\ ~(bx < 0 \/ bx >= Len(b[1]) \/ by < 0 \/ by >= Len(b))
            /\ ~b[by + 1][bx + 1].filled

\* A mergeBoard that writes every cell of the matrix, occupied or not.
mergeBoardWholeMatrix(b, shape, pos, color) ==
    [y \in 1..Len(b) |-> [x \in 1..Len(b[1]) |->
        IF /\ x - 1 - pos.x \in 0..(Len(shape) - 1)
           /\ y - 1 - pos.y \in 0..(Len(shape) - 1)
        THEN [filled |-> TRUE, color |-> color]
        ELSE b[y][x]]]

mergeBoard(b, shape, pos, color) ==
    [y \in 1..Len(b) |-> [x \in 1..Len(b[1]) |->
        IF /\ x - 1 - pos.x \in 0..(Len(shape) - 1)
           /\ y - 1 - pos.y \in 0..(Len(shape) - 1)
           /\ shape[y - pos.y][x - pos.x] # 0
        THEN [filled |-> TRUE, color |-> color]
        ELSE b[y][x]]]

IsFull(row) == \A x \in 1..Len(row) : row[x].filled

RECURSIVE KeepNotFull(_, _)
KeepNotFull(b, y) ==
    IF y > Len(b) THEN <<>>
    ELSE (IF IsFull(b[y]) THEN <<>> ELSE <<b[y]>>) \o KeepNotFull(b, y + 1)

\* A clearRows that pushes the empty rows at the bottom.
WithEmptyRowsBelow(kept, rows, cols) ==
    [board |-> kept \o [y \in 1..(rows - Len(kept)) |-> [x \in 1..cols |-> EmptyCell]],
     cleared |-> rows - Len(kept)]

\* A clearRows that counts the rows it keeps.
WithEmptyRowsCountingKept(kept, rows, cols) ==
    [board |-> [y \in 1..(rows - Len(kept)) |-> [x \in 1..cols |-> EmptyCell]] \o kept,
     cleared |-> Len(kept)]

\* the rows pushed to newBoard, then the empty rows unshifted on top
WithEmptyRows(kept, rows, cols) ==
    [board |-> [y \in 1..(rows - Len(kept)) |-> [x \in 1..cols |-> EmptyCell]] \o kept,
     cleared |-> rows - Len(kept)]

\* A clearRows that removes nothing.
clearRowsKeepingAll(b) == [board |-> b, cleared |-> 0]

clearRows(b) ==
    CHOOSE r \in {WithEmptyRows(kept, Len(b), Len(b[1])) : kept \in {KeepNotFull(b, 1)}} : TRUE

(***************************************************************************)
(* Helpers of the component.                                               *)
(***************************************************************************)
\* A getDropY that scans the column from the bottom up.
getDropYFromBottom(b, shape, pos) ==
    CHOOSE y \in pos.y..Len(b) :
        /\ y = pos.y \/ isValidPosition(b, shape, [x |-> pos.x, y |-> y])
        /\ \A k \in (y + 1)..Len(b) : ~isValidPosition(b, shape, [x |-> pos.x, y |-> k])

RECURSIVE getDropY(_, _, _)
getDropY(b, shape, pos) ==
    IF isValidPosition(b, shape, [x |-> pos.x, y |-> pos.y + 1])
    THEN getDropY(b, shape, [x |-> pos.x, y |-> pos.y + 1])
    ELSE pos.y

Min(a, b) == IF a <= b THEN a ELSE b

getLevelByLines(linesCleared) == Min(linesCleared \div 10, Len(LEVEL_SPEEDS) - 1)

points == <<0, 40, 100, 300, 1200>>

\* A getScoreForClearedRows that multiplies by level - 1.
getScoreForClearedRowsLevelBelow(rows, lvl) ==
    (IF rows + 1 \in DOMAIN points THEN points[rows + 1] ELSE 0) * (lvl - 1)

getScoreForClearedRows(rows, lvl) ==
    (IF rows + 1 \in DOMAIN points THEN points[rows + 1] ELSE 0) * (lvl + 1)

(***************************************************************************)
(* Bounds of the model.                                                    *)
(***************************************************************************)
MaxInputs == 2      \* input events (key presses, touches) in one behaviour
MaxTimers == 22     \* timer callbacks run in one behaviour
MaxSeed == 1        \* the seeds Date.now() % 654321 tried: 0..MaxSeed

(***************************************************************************)
(* Values of the component.                                                *)
(***************************************************************************)
Null == "null"

NullPiece == [type |-> Null, shape |-> <<>>, pos |-> [x |-> 0, y |-> 0], color |-> Null]

\* What the closures created in the current render see.
Render ==
    [piece |-> piece, board |-> board, lines |-> lines, level |-> level,
     nextPieceType |-> nextPieceType, status |-> status]

NoClosure ==
    [piece |-> NullPiece, board |-> <<>>, lines |-> 0, level |-> 0,
     nextPieceType |-> Null, status |-> "running"]

\* spawnPiece reads nothing of its render but nextPieceType
SpawnClosure(next) == [NoClosure EXCEPT !.nextPieceType = next]

NoTimer == [armed |-> FALSE, c |-> NoClosure]

\* setTimeout(() => fall(), delay) of a hard drop: the closure and, as history,
\* the row the command moved the piece to and the session that set it
FallTask(c, delay, dropY) ==
    [kind |-> "fall", delay |-> delay, c |-> c, dropY |-> dropY, lockY |-> -1,
     shown |-> Null, session |-> session]

\* setTimeout(() => spawnPiece(), 10) of a lock: the closure and, as history,
\* the row of the piece that the lock merged, the nextPieceType in the state
\* when the lock ran and the session that set it
SpawnTask(c, lockY) ==
    [kind |-> "spawn", delay |-> 10, c |-> SpawnClosure(c.nextPieceType),
     dropY |-> -1, lockY |-> lockY, shown |-> nextPieceType, session |-> session]

\* The places where a timeout of the given delay, set now, can come due among
\* the pending ones: after every pending timeout of the same or a smaller
\* delay (set earlier, so due earlier), before or after the others.
InsertPlaces(q, delay) ==
    {p \in 0..Len(q) : \A i \in 1..Len(q) : q[i].delay <= delay => i <= p}

InsertAt(q, p, task) == SubSeq(q, 1, p) \o <<task>> \o SubSeq(q, p + 1, Len(q))

\* The piece of the given type in spawn orientation at the spawn position
NewPiece(type) ==
    LET t == getTetromino(type)
    IN  [type |-> type, shape |-> t.shape,
         pos |-> [x |-> (BOARD_WIDTH - Len(t.shape[1])) \div 2, y |-> 0],
         color |-> t.color]

\* History record of the handler that ran last.
Last(op, src, res, y, dropY, rows, lockY) ==
    [op |-> op, src |-> src, res |-> res, y |-> y, dropY |-> dropY,
     rows |-> rows, lockY |-> lockY]

(***************************************************************************)
(* The falling-timer effect: after every render whose piece, status, level *)
(* or `fall` changed, the cleanup clears fallTimer and the effect arms a   *)
(* new timeout with the new `fall`, unless paused, over or without piece.  *)
(***************************************************************************)
\* A falling-timer effect that runs its cleanup and arms nothing.
FallingTimerEffectNeverArms == fallTimer' = NoTimer

FallingTimerEffect ==
    fallTimer' = IF status' = "paused" \/ status' = "gameover" \/ piece' = NullPiece
                 THEN NoTimer
                 ELSE [armed |-> TRUE, c |-> Render']

(***************************************************************************)
(* initGame: a new bag over the same generator, two draws, a new session.  *)
(***************************************************************************)
\* the values initGame sets, for the two draws `first` and `second`
NewSession(first, second) ==
    [board |-> createEmptyBoard(BOARD_HEIGHT, BOARD_WIDTH),
     lines |-> 0,
     score |-> 0,
     level |-> START_LEVEL,
     status |-> "running",
     nextPieceType |-> second.type,
     piece |-> NewPiece(first.type),
     bag |-> second.bag,
     rng |-> second.rng]

\* a is the state of the generator in rngRef.current
initGameFrom(a) ==
    CHOOSE g \in {NewSession(first, BagNext(first.bag, first.rng)) :
                     first \in {BagNext(createBagRNG, a)}} : TRUE

initGame(a) ==
    \E g \in {initGameFrom(a)} :
        /\ bag' = g.bag
        /\ rng' = g.rng
        /\ board' = g.board
        /\ lines' = g.lines
        /\ score' = g.score
        /\ level' = g.level
        /\ status' = g.status
        /\ nextPieceType' = g.nextPieceType
        /\ piece' = g.piece

(***************************************************************************)
(* spawnPiece, with the nextPieceType of the render that created it.       *)
(* bagRef.current is set from the first initGame on.                       *)
(***************************************************************************)
spawnPiece(c) ==
    \E d1 \in {IF c.nextPieceType = Null
                THEN BagNext(bag, rng)
                ELSE [type |-> c.nextPieceType, bag |-> bag, rng |-> rng]} :
    \E d2 \in {BagNext(d1.bag, d1.rng)} :
        /\ piece' = NewPiece(d1.type)
        /\ nextPieceType' = d2.type
        /\ bag' = d2.bag
        /\ rng' = d2.rng
        /\ UNCHANGED <<board, score, lines, level, status>>

(***************************************************************************)
(* fall, with the values of the render that created it.  q is `pending`    *)
(* without the timeout that is running; src and dropY are history.         *)
(***************************************************************************)
\* A lock that ends the game one row too early: the top two rows count as the
\* spawn row.
StatusAfterLockTwoRows(c, st) == IF c.piece.pos.y <= 1 THEN "gameover" ELSE st

\* fall's game-over test on the piece it has just locked
StatusAfterLock(c, st) == IF c.piece.pos.y = 0 THEN "gameover" ELSE st

fall(c, q, src, dropY) ==
    LET nextPos == [x |-> c.piece.pos.x, y |-> c.piece.pos.y + 1]
    IN  IF c.piece = NullPiece \/ c.status = "paused" \/ c.status = "gameover"
        THEN /\ UNCHANGED <<board, piece, nextPieceType, score, lines, level, status,
                            rng, bag>>
             /\ pending' = q
             /\ last' = Last("fall", src, "return", -1, dropY, 0, -1)
        ELSE IF isValidPosition(c.board, c.piece.shape, nextPos)
        THEN /\ piece' = [c.piece EXCEPT !.pos = nextPos]
             /\ UNCHANGED <<board, nextPieceType, score, lines, level, status, rng, bag>>
             /\ pending' = q
             /\ last' = Last("fall", src, "move", c.piece.pos.y, dropY, 0, -1)
        ELSE \E merged \in {mergeBoard(c.board, c.piece.shape, c.piece.pos, c.piece.color)} :
             \E cl \in {clearRows(merged)} :
             LET rowsCleared == cl.cleared
             IN  /\ board' = cl.board
                 /\ score' = IF rowsCleared # 0
                             THEN score + getScoreForClearedRows(rowsCleared, c.level)
                             ELSE score
                 /\ lines' = IF rowsCleared # 0 THEN lines + rowsCleared ELSE lines
                 /\ level' = getLevelByLines(c.lines + rowsCleared)
                 /\ \E p \in InsertPlaces(q, 10) :
                        pending' = InsertAt(q, p, SpawnTask(c, c.piece.pos.y))
                 /\ status' = StatusAfterLock(c, status)
                 /\ UNCHANGED <<piece, nextPieceType, rng, bag>>
                 /\ last' = Last("fall", src, "lock", c.piece.pos.y, dropY, rowsCleared, -1)

(***************************************************************************)
(* Timers.                                                                 *)
(***************************************************************************)
\* The timeout of fallTimer fires.
GravityTimer ==
    /\ fallTimer.armed
    /\ pending = <<>>
    /\ fired < MaxTimers
    /\ fired' = fired + 1
    /\ UNCHANGED <<session, mountSeed, call, ret>>
    /\ fall(fallTimer.c, pending, "gravity", -1)
    /\ FallingTimerEffect
    /\ UNCHANGED inputs

\* The pending timeout that is due first fires.
PendingTimer ==
    /\ pending # <<>>
    /\ fired < MaxTimers
    /\ fired' = fired + 1
    /\ UNCHANGED <<session, mountSeed, call, ret>>
    /\ LET task == Head(pending)
       IN  IF task.kind = "fall"
           THEN fall(task.c, Tail(pending), "drop", task.dropY)
           ELSE /\ spawnPiece(task.c)
                /\ pending' = Tail(pending)
                /\ last' = Last("spawn", "lock", "spawn", -1, -1, 0, task.lockY)
    /\ FallingTimerEffect
    /\ UNCHANGED inputs

(***************************************************************************)
(* Keyboard.  onKeyDown is registered while the game is not over, the      *)
(* second listener while it is.                                            *)
(***************************************************************************)
\* A key handler that sets the piece without testing isValidPosition.
TryPieceUnchecked(nextShape, nextPos) ==
    /\ piece' = [piece EXCEPT !.shape = nextShape, !.pos = nextPos]
    /\ UNCHANGED <<board, nextPieceType, score, lines, level, rng, bag, pending>>

\* the end of onKeyDown for a key other than Space
TryPiece(nextShape, nextPos) ==
    /\ piece' = IF isValidPosition(board, nextShape, nextPos)
                THEN [piece EXCEPT !.shape = nextShape, !.pos = nextPos]
                ELSE piece
    /\ UNCHANGED <<board, nextPieceType, score, lines, level, rng, bag, pending>>

onKeyDown(key) ==
    /\ status # "gameover"
    /\ inputs < MaxInputs
    /\ inputs' = inputs + 1
    /\ UNCHANGED <<fired, mountSeed, call, ret>>
    /\ last' = Last(key, "key", "input", -1, -1, 0, -1)
    /\ session' = IF key = "r" /\ status = "running" /\ piece # NullPiece
                  THEN session + 1 ELSE session
    /\ IF status = "paused"
       THEN /\ status' = IF key = "Space" THEN "running" ELSE status
            /\ UNCHANGED <<board, piece, nextPieceType, score, lines, level, rng, bag,
                           pending>>
       ELSE IF piece = NullPiece
       THEN UNCHANGED <<board, piece, nextPieceType, score, lines, level, status, rng,
                        bag, pending>>
       ELSE CASE key = "ArrowLeft" ->
                    /\ TryPiece(piece.shape, [piece.pos EXCEPT !.x = @ - 1])
                    /\ UNCHANGED status
              [] key = "ArrowRight" ->
                    /\ TryPiece(piece.shape, [piece.pos EXCEPT !.x = @ + 1])
                    /\ UNCHANGED status
              [] key = "ArrowDown" ->
                    /\ TryPiece(piece.shape, [piece.pos EXCEPT !.y = @ + 1])
                    /\ UNCHANGED status
              [] key = "ArrowUp" ->
                    /\ TryPiece(rotate(piece.shape), piece.pos)
                    /\ UNCHANGED status
              [] key = "Space" ->
                    \E dropY \in {getDropY(board, piece.shape, piece.pos)} :
                        /\ piece' = [piece EXCEPT !.pos = [x |-> piece.pos.x, y |-> dropY]]
                        /\ \E p \in InsertPlaces(pending, 20) :
                               pending' = InsertAt(pending, p, FallTask(Render, 20, dropY))
                        /\ UNCHANGED <<board, nextPieceType, score, lines, level, status,
                                       rng, bag>>
              [] key = "p" ->
                    /\ status' = "paused"
                    /\ TryPiece(piece.shape, piece.pos)
              [] key = "r" ->
                    /\ initGame(rng)
                    /\ UNCHANGED pending
    /\ FallingTimerEffect

KeyLeft == onKeyDown("ArrowLeft")
KeyRight == onKeyDown("ArrowRight")
KeyDown == onKeyDown("ArrowDown")
KeyUp == onKeyDown("ArrowUp")
KeySpace == onKeyDown("Space")
KeyP == onKeyDown("p")
KeyR == onKeyDown("r")

\* the listener of the game-over effect: R or Space restarts
GameOverKey ==
    /\ status = "gameover"
    /\ inputs < MaxInputs
    /\ inputs' = inputs + 1
    /\ UNCHANGED <<fired, mountSeed, call, ret>>
    /\ last' = Last("r", "key", "input", -1, -1, 0, -1)
    /\ session' = session + 1
    /\ initGame(rng)
    /\ UNCHANGED pending
    /\ FallingTimerEffect

(***************************************************************************)
(* Touch controls (the buttons of src/unnamed/part_001).  The handlers are *)
(* those of the latest render.                                             *)
(***************************************************************************)
Touch(name) ==
    /\ inputs < MaxInputs
    /\ inputs' = inputs + 1
    /\ UNCHANGED <<fired, mountSeed, call, ret>>
    /\ session' = IF name = "restart" THEN session + 1 ELSE session
    /\ last' = Last(name, "touch", "input", -1, -1, 0, -1)

\* setPiece({ ...piece, pos }) if the position is valid
TouchMove(pos) ==
    /\ piece' = IF piece # NullPiece /\ status # "paused" /\ status # "gameover"
                   /\ isValidPosition(board, piece.shape, pos)
                THEN [piece EXCEPT !.pos = pos]
                ELSE piece
    /\ UNCHANGED <<board, nextPieceType, score, lines, level, status, rng, bag, pending>>

moveLeft ==
    /\ Touch("moveLeft")
    /\ TouchMove([piece.pos EXCEPT !.x = @ - 1])
    /\ FallingTimerEffect

moveRight ==
    /\ Touch("moveRight")
    /\ TouchMove([piece.pos EXCEPT !.x = @ + 1])
    /\ FallingTimerEffect

\* A touch soft drop that sets the piece without testing isValidPosition.
moveDownUnchecked ==
    /\ Touch("moveDown")
    /\ piece' = IF piece # NullPiece /\ status # "paused" /\ status # "gameover"
                THEN [piece EXCEPT !.pos = [piece.pos EXCEPT !.y = @ + 1]]
                ELSE piece
    /\ UNCHANGED <<board, nextPieceType, score, lines, level, status, rng, bag, pending>>
    /\ FallingTimerEffect

moveDown ==
    /\ Touch("moveDown")
    /\ TouchMove([piece.pos EXCEPT !.y = @ + 1])
    /\ FallingTimerEffect

\* A touch rotate with a wall kick: a rotation that does not fit is tried one
\* column to the left.
rotatePieceWithKick ==
    /\ Touch("rotatePiece")
    /\ piece' = IF piece # NullPiece /\ status # "paused" /\ status # "gameover"
                THEN IF isValidPosition(board, rotate(piece.shape), piece.pos)
                     THEN [piece EXCEPT !.shape = rotate(piece.shape)]
                     ELSE IF isValidPosition(board, rotate(piece.shape),
                                             [piece.pos EXCEPT !.x = @ - 1])
                     THEN [piece EXCEPT !.shape = rotate(piece.shape),
                                        !.pos = [piece.pos EXCEPT !.x = @ - 1]]
                     ELSE piece
                ELSE piece
    /\ UNCHANGED <<board, nextPieceType, score, lines, level, status, rng, bag, pending>>
    /\ FallingTimerEffect

rotatePiece ==
    /\ Touch("rotatePiece")
    /\ piece' = IF piece # NullPiece /\ status # "paused" /\ status # "gameover"
                   /\ isValidPosition(board, rotate(piece.shape), piece.pos)
                THEN [piece EXCEPT !.shape = rotate(piece.shape)]
                ELSE piece
    /\ UNCHANGED <<board, nextPieceType, score, lines, level, status, rng, bag, pending>>
    /\ FallingTimerEffect

\* A touch hard drop that does not test isPaused.
hardDropIgnoringPause ==
    /\ Touch("hardDrop")
    /\ IF piece # NullPiece /\ status # "gameover"
       THEN \E dropTo \in {getDropY(board, piece.shape, piece.pos)} :
                /\ piece' = [piece EXCEPT !.pos = [x |-> piece.pos.x, y |-> dropTo]]
                /\ \E p \in InsertPlaces(pending, 26) :
                       pending' = InsertAt(pending, p, FallTask(Render, 26, dropTo))
       ELSE UNCHANGED <<piece, pending>>
    /\ UNCHANGED <<board, nextPieceType, score, lines, level, status, rng, bag>>
    /\ FallingTimerEffect

hardDrop ==
    /\ Touch("hardDrop")
    /\ IF piece # NullPiece /\ status # "paused" /\ status # "gameover"
       THEN \E dropTo \in {getDropY(board, piece.shape, piece.pos)} :
                /\ piece' = [piece EXCEPT !.pos = [x |-> piece.pos.x, y |-> dropTo]]
                /\ \E p \in InsertPlaces(pending, 26) :
                       pending' = InsertAt(pending, p, FallTask(Render, 26, dropTo))
       ELSE UNCHANGED <<piece, pending>>
    /\ UNCHANGED <<board, nextPieceType, score, lines, level, status, rng, bag>>
    /\ FallingTimerEffect

\* the Restart button of the game-over overlay: onClick={initGame}
RestartButton ==
    /\ status = "gameover"
    /\ Touch("restart")
    /\ initGame(rng)
    /\ UNCHANGED pending
    /\ FallingTimerEffect

(***************************************************************************)
(* Start of the component: the mount effect runs initGame on the generator *)
(* seeded with Date.now() % 654321.                                        *)
(***************************************************************************)
Mounted(s) == initGameFrom(randomSeededRNG(s))

(***************************************************************************)
(* Games in progress.  Both are states the component reaches from its      *)
(* mount, running, with fallTimer armed and no other timeout pending; the  *)
(* behaviours start there so that a row is completed, and the stack        *)
(* reaches the top, within the bounds.                                     *)
(***************************************************************************)
\* the cells of a row given by the letters of the pieces merged there
Cells(row) ==
    [x \in 1..Len(row) |->
        IF row[x] = "." THEN EmptyCell
        ELSE [filled |-> TRUE, color |-> getTetromino(row[x]).color]]

\* the board whose bottom rows are the given ones
Stack(rows) ==
    createEmptyBoard(BOARD_HEIGHT - Len(rows), BOARD_WIDTH)
    \o [i \in 1..Len(rows) |-> Cells(rows[i])]

\* Seed 0, 27 pieces locked, 9 rows cleared one at a time (score 540).  Each
\* piece was rotated (U) and shifted (L, R) at the spawn row and then left to
\* gravity, in this order:
\*   O:UUURRRR I:UUR L:UURRRR J:UUURR Z:UUUR T:RRRR S:UUURRRRR Z:UUUR
\*   S:UUURRRRR T:UUURRRRR L:URR I:UULLL J:UUUL O:UUULLLL L:LLL T:UUL S:UUR
\*   J:UUULLL Z:UULL O:UUUL I:UUURRR S:UURR I:UUULLLL O:UUULLL L:UULLL J: T:RRR
\* The 28th piece, Z, was rotated twice and has fallen to y = 15, one row
\* above the row where it rests and completes row 18.
GameBeforeClearRows ==
    <<<<".", ".", ".", ".", ".", ".", ".", "T", ".", ".">>,
      <<"L", "L", "L", "J", ".", ".", "T", "T", "T", "T">>,
      <<"O", "O", ".", "J", "Z", "Z", "J", "L", "L", "L">>>>

GameBeforeClear ==
    [board |-> Stack(GameBeforeClearRows),
     piece |-> [type |-> "Z", shape |-> rotate(rotate(getTetromino("Z").shape)),
                pos |-> [x |-> 3, y |-> 15], color |-> getTetromino("Z").color],
     nextPieceType |-> "J",
     score |-> 540, lines |-> 9, level |-> 0, status |-> "running",
     bag |-> <<"Z", "I", "S", "O", "T", "L">>,
     rng |-> <<51992, 19126>>]

\* Seed 5, no input at all: 9 pieces have piled up in the spawn columns and
\* the 10th, Z, has just spawned.  It rests at y = 1; the 11th, I, spawns on
\* top of it.
GameBeforeTopOutRows ==
    <<<<".", ".", ".", ".", "T", ".", ".", ".", ".", ".">>,
      <<".", ".", ".", "T", "T", "T", ".", ".", ".", ".">>,
      <<".", ".", ".", "J", ".", ".", ".", ".", ".", ".">>,
      <<".", ".", ".", "J", "J", "J", ".", ".", ".", ".">>,
      <<".", ".", ".", ".", "S", "S", ".", ".", ".", ".">>,
      <<".", ".", ".", "S", "S", ".", ".", ".", ".", ".">>,
      <<".", ".", ".", "J", ".", ".", ".", ".", ".", ".">>,
      <<".", ".", ".", "J", "J", "J", ".", ".", ".", ".">>,
      <<".", ".", ".", "I", "I", "I", "I", ".", ".", ".">>,
      <<".", ".", ".", ".", "T", ".", ".", ".", ".", ".">>,
      <<".", ".", ".", "T", "T", "T", ".", ".", ".", ".">>,
      <<".", ".", ".", ".", "O", "O", ".", ".", ".", ".">>,
      <<".", ".", ".", ".", "O", "O", ".", ".", ".", ".">>,
      <<".", ".", ".", ".", ".", "L", ".", ".", ".", ".">>,
      <<".", ".", ".", "L", "L", "L", ".", ".", ".", ".">>,
      <<".", ".", ".", "Z", "Z", ".", ".", ".", ".", ".">>,
      <<".", ".", ".", ".", "Z", "Z", ".", ".", ".", ".">>>>

GameBeforeTopOut ==
    [board |-> Stack(GameBeforeTopOutRows),
     piece |-> [type |-> "Z", shape |-> getTetromino("Z").shape,
                pos |-> [x |-> 3, y |-> 0], color |-> getTetromino("Z").color],
     nextPieceType |-> "I",
     score |-> 0, lines |-> 0, level |-> 0, status |-> "running",
     bag |-> <<"S", "O", "L">>,
     rng |-> <<7689, 46977>>]

Started == {Mounted(s) : s \in 0..MaxSeed} \cup {GameBeforeClear, GameBeforeTopOut}

\* the seed each game in Started was mounted with
SeedOf(g) == IF g = GameBeforeTopOut THEN 5
             ELSE IF g = GameBeforeClear THEN 0
             ELSE CHOOSE s \in 0..MaxSeed : g = Mounted(s)

\* no engine call is under study while the game runs
NoCall == [fn |-> "none"]

\* the component in the state g, mounted with seed s, its gravity timer armed
StartWith(g, s) ==
    /\ mountSeed = s
    /\ board = g.board
    /\ piece = g.piece
    /\ nextPieceType = g.nextPieceType
    /\ score = g.score
    /\ lines = g.lines
    /\ level = g.level
    /\ bag = g.bag
    /\ rng = g.rng
    /\ status = g.status
    /\ fallTimer = [armed |-> TRUE, c |-> Render]
    /\ pending = <<>>
    /\ inputs = 0
    /\ fired = 0
    /\ session = 0
    /\ last = Last("start", "none", "none", -1, -1, 0, -1)
    /\ call = NoCall
    /\ ret = NoCall

Init == \E g \in Started : StartWith(g, SeedOf(g))

Next ==
    \/ GravityTimer
    \/ PendingTimer
    \/ KeyLeft
    \/ KeyRight
    \/ KeyDown
    \/ KeyUp
    \/ KeySpace
    \/ KeyP
    \/ KeyR
    \/ GameOverKey
    \/ moveLeft
    \/ moveRight
    \/ moveDown
    \/ rotatePiece
    \/ hardDrop
    \/ RestartButton

Spec == Init /\ [][Next]_vars

(***************************************************************************)
(* Properties.  A step that runs a timer callback is one with              *)
(* fired' = fired + 1, and `last` then describes the callback; a step that *)
(* runs initGame is one with session' # session.                           *)
(***************************************************************************)
TimerStep == fired' = fired + 1

LockStep == TimerStep /\ last'.op = "fall" /\ last'.res = "lock"

\* C1: the deferred fall of a hard drop locks the piece, and locks it at the
\* row getDropY gave when the command ran; it never moves the piece instead,
\* so that the piece is not shown again above its drop row.
HardDropLocksAtDropRow ==
    (last.op = "fall" /\ last.src = "drop") =>
        (last.res = "lock" /\ last.y = last.dropY)

\* C2: a fall that locks the piece sets status to gameover if the locked piece
\* is at y = 0 and leaves status alone otherwise; a spawn leaves status alone;
\* and nothing else than a lock at y = 0 ends the game.
LockGameOverIffTopRow ==
    [][ /\ LockStep => status' = (IF last'.y = 0 THEN "gameover" ELSE status)
        /\ (TimerStep /\ last'.op = "spawn") => status' = status
        /\ (status # "gameover" /\ status' = "gameover") =>
               (LockStep /\ last'.y = 0) ]_vars

\* C2 witness: a piece was locked at y = 0 and the game is over.
TopRowLockEndedGame ==
    last.op = "fall" /\ last.res = "lock" /\ last.y = 0 /\ status = "gameover"

\* C3: no spawn follows from a lock at y = 0: the spawn callback a lock has
\* scheduled runs only if the locked piece was below the top row.
NoSpawnAfterGameOverLock == last.op = "spawn" => last.lockY # 0

\* C4: once status is gameover, every step other than a restart leaves status
\* gameover and leaves board, score, lines and level unchanged.
GameOverIsTerminal ==
    [][ (status = "gameover" /\ session' = session) =>
            (status' = "gameover" /\ UNCHANGED <<board, score, lines, level>>) ]_vars

\* C5: while status is paused no fall callback, of the gravity timer or
\* deferred by a hard drop, changes the piece, the board, score, lines or level.
NoTickWhilePaused ==
    [][ (status = "paused" /\ TimerStep /\ last'.op = "fall") =>
            UNCHANGED <<piece, board, score, lines, level>> ]_vars

\* C6: a callback that was scheduled before the latest restart changes nothing
\* of the new session: piece, next piece type, board, score, lines, level and
\* status stay, and nothing is drawn from the bag.
RestartIsolatesSession ==
    [][ (TimerStep /\ pending # <<>> /\ Head(pending).session < session) =>
            UNCHANGED <<piece, nextPieceType, board, score, lines, level, status,
                        bag>> ]_vars

\* C7: at most one pending timeout will run fall: the gravity timeout and the
\* deferred falls of hard drops together are never more than one.
FallTasks ==
    (IF fallTimer.armed THEN 1 ELSE 0)
        + Cardinality({i \in DOMAIN pending : pending[i].kind = "fall"})

OnePendingFallTask == FallTasks <= 1

\* C8: a lock adds scoreTable[rowsCleared] * (level + 1) to score, with the
\* level in force before the lock, and rowsCleared to lines; no other step
\* than a restart changes score or lines.
LockScoresWithCurrentLevel ==
    [][ IF LockStep
        THEN /\ score' = score + (points[last'.rows + 1] * (level + 1))
             /\ lines' = lines + last'.rows
        ELSE session' # session \/ UNCHANGED <<score, lines>> ]_vars

\* C9: in every reachable state level = min(floor(lines / 10), 19).
LevelFollowsLines == level = Min(lines \div 10, 19)

\* C10: in every reachable state with an active piece, the piece's position is
\* valid on the board: inside it and on unfilled cells only.
PiecePositionValid ==
    piece # NullPiece => isValidPosition(board, piece.shape, piece.pos)

InputStep == inputs' = inputs + 1

\* C11: status never goes from paused to gameover nor from gameover to paused
\* in one step: both are entered from running only.
PausedAndGameOverApart ==
    [][ /\ ~(status = "paused" /\ status' = "gameover")
        /\ ~(status = "gameover" /\ status' = "paused") ]_vars

\* C12: the pause key P toggles: in running it sets status to paused, in paused
\* it sets status back to running; board, piece, next piece type, score, lines
\* and level are unchanged.
PauseKeyToggles ==
    [][ (InputStep /\ last'.op = "p") =>
            /\ status' = (IF status = "running" THEN "paused"
                          ELSE IF status = "paused" THEN "running" ELSE status)
            /\ UNCHANGED <<board, piece, nextPieceType, score, lines, level>> ]_vars

\* C13: a restart command (R key, or the Restart button) is accepted in every
\* status and yields an empty board, score = lines = level = 0, status running,
\* a piece in spawn orientation at the spawn position and a next piece type,
\* the two being the first two draws of a new bag (five types remain in it).
RestartCommands == {"r", "restart"}

FreshSession ==
    /\ board' = createEmptyBoard(20, 10)
    /\ score' = 0 /\ lines' = 0 /\ level' = 0
    /\ status' = "running"
    /\ nextPieceType' \in TetrominoType
    /\ piece'.type \in TetrominoType
    /\ piece' = NewPiece(piece'.type)
    /\ Len(bag') = 5
    /\ {piece'.type, nextPieceType'} \cup {bag'[i] : i \in 1..5} = TetrominoType

RestartAcceptedEverywhere ==
    [][ (InputStep /\ last'.op \in RestartCommands) => FreshSession ]_vars

\* The gameplay commands other than the Space key: the arrow keys and the
\* five touch buttons.
GameplayCommands ==
    {"ArrowLeft", "ArrowRight", "ArrowDown", "ArrowUp",
     "moveLeft", "moveRight", "moveDown", "rotatePiece", "hardDrop"}

\* C14 as stated: every move, rotate, soft-drop and hard-drop command (the
\* Space key included) issued while paused leaves piece, board, next piece
\* type, score, lines, level and status unchanged.
PausedBlocksEveryCommand ==
    [][ (InputStep /\ status = "paused"
            /\ last'.op \in GameplayCommands \cup {"Space"}) =>
            UNCHANGED <<piece, board, nextPieceType, score, lines, level, status>> ]_vars

\* C14 amended: while paused the arrow keys and the touch buttons (touch hard
\* drop included) leave the whole session state unchanged and schedule nothing;
\* the Space key moves nothing and schedules no fall either, but resumes: it
\* sets status to running.
PausedBlocksGameplay ==
    [][ (InputStep /\ status = "paused") =>
            /\ last'.op \in GameplayCommands =>
                   UNCHANGED <<piece, board, nextPieceType, score, lines, level,
                               status, pending>>
            /\ last'.op = "Space" =>
                   /\ status' = "running"
                   /\ UNCHANGED <<piece, board, nextPieceType, score, lines, level,
                                  pending>> ]_vars

\* C14 witness: a gameplay command has run while the game was paused.
GameplayCommandWhilePaused ==
    status = "paused" /\ last.res = "input" /\ last.op \in GameplayCommands

FallStep == TimerStep /\ last'.op = "fall"

Down(pos) == [x |-> pos.x, y |-> pos.y + 1]

\* C15: a run of fall in running, with an active piece whose position one row
\* down is valid, changes the piece's y to y + 1 and nothing else: x, shape,
\* type and colour, board, next piece type, score, lines, level and status stay.
TickMovesOneRowDown ==
    [][ (FallStep /\ status = "running" /\ piece # NullPiece
            /\ isValidPosition(board, piece.shape, Down(piece.pos))) =>
            /\ piece' = [piece EXCEPT !.pos = Down(piece.pos)]
            /\ UNCHANGED <<board, nextPieceType, score, lines, level, status>> ]_vars

\* C16: a run of fall in running, with an active piece whose position one row
\* down is invalid, sets the board to clearRows of the merge of the current
\* piece into the current board.
TickLocksCurrentPiece ==
    [][ (FallStep /\ status = "running" /\ piece # NullPiece
            /\ ~isValidPosition(board, piece.shape, Down(piece.pos))) =>
            board' = clearRows(mergeBoard(board, piece.shape, piece.pos,
                                          piece.color)).board ]_vars

\* C17: the spawn that follows a lock which did not end the game makes the
\* type shown as nextPieceType when the lock ran the active piece, in spawn
\* orientation at x = floor((10 - width) / 2), y = 0, and makes the next draw
\* of the bag the nextPieceType.
SpawnPromotesShownNext ==
    [][ (TimerStep /\ pending # <<>> /\ Head(pending).kind = "spawn"
            /\ Head(pending).lockY # 0) =>
            /\ piece' = [type |-> Head(pending).shown,
                         shape |-> getTetromino(Head(pending).shown).shape,
                         pos |-> [x |-> (10 - Len(getTetromino(Head(pending).shown).shape[1]))
                                           \div 2,
                                  y |-> 0],
                         color |-> getTetromino(Head(pending).shown).color]
            /\ nextPieceType' = BagNext(bag, rng).type ]_vars

\* What a command other than a hard drop, a pause or a restart leaves alone.
OnlyPieceMayChange ==
    UNCHANGED <<board, nextPieceType, score, lines, level, status, rng, bag, pending>>

LeftCommands == {"ArrowLeft", "moveLeft"}
RightCommands == {"ArrowRight", "moveRight"}
DownCommands == {"ArrowDown", "moveDown"}
RotateCommands == {"ArrowUp", "rotatePiece"}

\* C18: a left or right command in running sets the piece's x to x - 1 or
\* x + 1 if the shifted position is valid and otherwise changes nothing; y,
\* shape, board, score, lines, level and status are unchanged either way.
HorizontalMoveChecked ==
    [][ (InputStep /\ status = "running" /\ piece # NullPiece
            /\ last'.op \in LeftCommands \cup RightCommands) =>
            LET to == [x |-> piece.pos.x + (IF last'.op \in LeftCommands THEN -1 ELSE 1),
                       y |-> piece.pos.y]
            IN  /\ piece' = IF isValidPosition(board, piece.shape, to)
                            THEN [piece EXCEPT !.pos = to]
                            ELSE piece
                /\ OnlyPieceMayChange ]_vars

\* C18 witness: a left or right command has run in running and the piece is
\* off its spawn column.
HorizontalMoveApplied ==
    /\ status = "running" /\ last.res = "input"
    /\ last.op \in LeftCommands \cup RightCommands
    /\ piece.pos.x # NewPiece(piece.type).pos.x

\* C19: a soft-down command in running moves the piece one row down if that
\* position is valid and otherwise changes nothing; it never changes the
\* board, score, lines, level, the next piece type or status and schedules no
\* spawn.
SoftDropNeverLocks ==
    [][ (InputStep /\ status = "running" /\ piece # NullPiece
            /\ last'.op \in DownCommands) =>
            /\ piece' = IF isValidPosition(board, piece.shape, Down(piece.pos))
                        THEN [piece EXCEPT !.pos = Down(piece.pos)]
                        ELSE piece
            /\ OnlyPieceMayChange ]_vars

\* C19 witness: a soft-down command has run in running and the piece now rests
\* unlocked: it is valid where it is and cannot go down.
SoftDropOntoRest ==
    /\ status = "running" /\ last.res = "input" /\ last.op \in DownCommands
    /\ isValidPosition(board, piece.shape, piece.pos)
    /\ ~isValidPosition(board, piece.shape, Down(piece.pos))

\* C20: a rotate command in running sets the shape to rotate(shape) if that is
\* valid at the piece's position and otherwise changes nothing; the position
\* never changes.
RotateCheckedInPlace ==
    [][ (InputStep /\ status = "running" /\ piece # NullPiece
            /\ last'.op \in RotateCommands) =>
            /\ piece' = IF isValidPosition(board, rotate(piece.shape), piece.pos)
                        THEN [piece EXCEPT !.shape = rotate(piece.shape)]
                        ELSE piece
            /\ piece'.pos = piece.pos
            /\ OnlyPieceMayChange ]_vars

\* C20 witness: a rotate command has run in running and the piece is a quarter
\* turn from its spawn orientation.
RotationApplied ==
    /\ status = "running" /\ last.res = "input" /\ last.op \in RotateCommands
    /\ piece.type # "O"
    /\ piece.shape = rotate(getTetromino(piece.type).shape)

(***************************************************************************)
(* The engine functions on their own.  The component is not mounted: its   *)
(* state is what useState and useRef created, no timer is armed and no     *)
(* listener is registered.  `call` holds the arguments of one call and     *)
(* `ret` what it returned.                                                 *)
(***************************************************************************)
gameVars == <<board, piece, nextPieceType, score, lines, level, status, rng, bag,
              fallTimer, pending, inputs, fired, session, last, mountSeed>>

Unmounted ==
    /\ board = createEmptyBoard(BOARD_HEIGHT, BOARD_WIDTH)
    /\ piece = NullPiece
    /\ nextPieceType = Null
    /\ score = 0
    /\ lines = 0
    /\ level = START_LEVEL
    /\ status = "running"
    /\ rng = Null
    /\ bag = <<>>
    /\ fallTimer = NoTimer
    /\ pending = <<>>
    /\ inputs = 0
    /\ fired = 0
    /\ session = 0
    /\ last = Last("start", "none", "none", -1, -1, 0, -1)
    /\ mountSeed = 0

(***************************************************************************)
(* isValidPosition, mergeBoard and getDropY on small boards.  The boards   *)
(* are as wide as the S piece's matrix, MaxRows high, and have at most     *)
(* MaxFilled filled cells; the shapes are S (empty bottom row), S rotated  *)
(* once (empty left column) and O; the positions reach one cell outside    *)
(* the board on every side.                                                *)
(***************************************************************************)
MaxRows == 4
MaxFilled == 4

ProbeCols == Len(getTetromino("S").shape)

FilledCell == [filled |-> TRUE, color |-> getTetromino("I").color]

BoardOf(cells) ==
    [y \in 1..MaxRows |-> [x \in 1..ProbeCols |->
        IF <<y, x>> \in cells THEN FilledCell ELSE EmptyCell]]

ProbeBoards ==
    {BoardOf(cells) : cells \in {c \in SUBSET ((1..MaxRows) \X (1..ProbeCols)) :
                                     Cardinality(c) <= MaxFilled}}

ProbeShapes ==
    {getTetromino("S").shape, rotate(getTetromino("S").shape), getTetromino("O").shape}

ProbePositions == [x : (-1)..(ProbeCols - 2), y : (-1)..(MaxRows - 1)]

InitGrid ==
    /\ Unmounted
    /\ call \in [fn : {"grid"}, board : ProbeBoards, shape : ProbeShapes,
                  pos : ProbePositions, color : {getTetromino("S").color}]
    /\ ret = NoCall

CallIsValidPosition ==
    /\ ret = NoCall
    /\ ret' = [fn |-> "isValidPosition",
               value |-> isValidPosition(call.board, call.shape, call.pos)]
    /\ UNCHANGED <<call, gameVars>>

CallMergeBoard ==
    /\ ret = NoCall
    /\ ret' = [fn |-> "mergeBoard",
               value |-> mergeBoard(call.board, call.shape, call.pos, call.color)]
    /\ UNCHANGED <<call, gameVars>>

\* getDropY is called with the position of the piece, which is valid
CallGetDropY ==
    /\ ret = NoCall
    /\ isValidPosition(call.board, call.shape, call.pos)
    /\ ret' = [fn |-> "getDropY", value |-> getDropY(call.board, call.shape, call.pos)]
    /\ UNCHANGED <<call, gameVars>>

NextGrid ==
    \/ CallIsValidPosition
    \/ CallMergeBoard
    \/ CallGetDropY

SpecGrid == InitGrid /\ [][NextGrid]_vars

\* the piece of the call fits at row y of its column
FitsAt(y) == isValidPosition(call.board, call.shape, [x |-> call.pos.x, y |-> y])

\* C21 (as stated): getDropY returns the largest row y' >= y such that the
\* piece fits at y' and does not fit at y' + 1, also when an obstructed row
\* lies between y and y'.
DropRowIsLargestRestingRow ==
    ret.fn = "getDropY" =>
        /\ ret.value >= call.pos.y
        /\ FitsAt(ret.value) /\ ~FitsAt(ret.value + 1)
        /\ \A k \in call.pos.y..MaxRows : FitsAt(k) /\ ~FitsAt(k + 1) => k <= ret.value

\* C21 (amended): getDropY returns the first row y' >= y below which the piece
\* does not fit: the piece fits at every row from y to y' and not at y' + 1.
DropRowIsFirstRestingRow ==
    ret.fn = "getDropY" =>
        /\ ret.value >= call.pos.y
        /\ \A k \in call.pos.y..ret.value : FitsAt(k)
        /\ ~FitsAt(ret.value + 1)

\* C21 witness: getDropY has stopped above an overhang; the piece would fit
\* again in a row below the obstructed one.
DropStoppedAboveOverhang ==
    /\ ret.fn = "getDropY"
    /\ \E k \in (ret.value + 2)..MaxRows : FitsAt(k)

\* the cells of the call's matrix, as offsets <<x, y>>
MatrixCells == (0..(Len(call.shape) - 1)) \X (0..(Len(call.shape) - 1))

Occupied(c) == call.shape[c[2] + 1][c[1] + 1] # 0

\* the board cell <<bx, by>> a matrix cell is laid on
BoardCell(c) == <<call.pos.x + c[1], call.pos.y + c[2]>>

InBounds(bc) ==
    /\ bc[1] >= 0 /\ bc[1] < Len(call.board[1])
    /\ bc[2] >= 0 /\ bc[2] < Len(call.board)

\* C25: isValidPosition returns false exactly when an occupied cell of the
\* shape lies outside the board or on a filled cell; unoccupied cells of the
\* matrix may lie outside the board.
ValidIffInBoundsAndFree ==
    ret.fn = "isValidPosition" =>
        (ret.value = FALSE <=>
            \E c \in MatrixCells :
                /\ Occupied(c)
                /\ \/ ~InBounds(BoardCell(c))
                   \/ call.board[BoardCell(c)[2] + 1][BoardCell(c)[1] + 1].filled)

\* C25 witness: a position was found valid although an unoccupied cell of the
\* matrix lies outside the board.
ValidWithEmptyCellOutside ==
    /\ ret.fn = "isValidPosition"
    /\ ret.value = TRUE
    /\ \E c \in MatrixCells : ~Occupied(c) /\ ~InBounds(BoardCell(c))

\* the board cell <<bx, by>> lies under an occupied cell of the shape
Covered(bc) == \E c \in MatrixCells : Occupied(c) /\ BoardCell(c) = bc

\* C26: mergeBoard returns a board of the same dimensions in which every cell
\* under an occupied cell of the shape is filled with the given colour and
\* every other cell is as in the input; occupied cells outside the board are
\* skipped.
MergeWritesCoveredCells ==
    ret.fn = "mergeBoard" =>
        /\ Len(ret.value) = Len(call.board)
        /\ \A y \in 1..Len(call.board) :
              /\ Len(ret.value[y]) = Len(call.board[y])
              /\ \A x \in 1..Len(call.board[y]) :
                    ret.value[y][x] = IF Covered(<<x - 1, y - 1>>)
                                      THEN [filled |-> TRUE, color |-> call.color]
                                      ELSE call.board[y][x]

\* C26 witness: a shape was merged that lies partly outside the board and
\* partly on it, over a cell that was filled and beside one that stays filled.
MergedPartlyOutside ==
    /\ ret.fn = "mergeBoard"
    /\ \E c \in MatrixCells : Occupied(c) /\ ~InBounds(BoardCell(c))
    /\ \E c \in MatrixCells :
          /\ Occupied(c) /\ InBounds(BoardCell(c))
          /\ call.board[BoardCell(c)[2] + 1][BoardCell(c)[1] + 1].filled
    /\ \E y \in 1..MaxRows, x \in 1..ProbeCols :
          ~Covered(<<x - 1, y - 1>>) /\ ret.value[y][x] = FilledCell

(***************************************************************************)
(* clearRows on every board of MaxRows rows as wide as the S matrix.       *)
(***************************************************************************)
AllBoards ==
    {BoardOf(cells) : cells \in SUBSET ((1..MaxRows) \X (1..ProbeCols))}

InitRows ==
    /\ Unmounted
    /\ call \in [fn : {"rows"}, board : AllBoards]
    /\ ret = NoCall

CallClearRows ==
    /\ ret = NoCall
    /\ ret' = [fn |-> "clearRows", value |-> clearRows(call.board)]
    /\ UNCHANGED <<call, gameVars>>

NextRows == CallClearRows

SpecRows == InitRows /\ [][NextRows]_vars

FullRow(row) == \A x \in 1..Len(row) : row[x].filled

NotFullRow(row) == ~FullRow(row)

\* C27: clearRows returns a board with as many rows as the input: empty rows
\* on top, one for each full row of the input, then the rows that are not
\* full, in their order; `cleared` is the number of full rows; a board
\* without a full row comes back with the same content and cleared = 0.
ClearRowsKeepsNotFullRows ==
    ret.fn = "clearRows" =>
        LET n == Cardinality({y \in 1..Len(call.board) : FullRow(call.board[y])})
        IN  /\ Len(ret.value.board) = Len(call.board)
            /\ ret.value.cleared = n
            /\ \A y \in 1..n :
                  ret.value.board[y] = [x \in 1..Len(call.board[1]) |-> EmptyCell]
            /\ SubSeq(ret.value.board, n + 1, Len(call.board))
                   = SelectSeq(call.board, NotFullRow)
            /\ n = 0 => ret.value.board = call.board /\ ret.value.cleared = 0

\* C27 witness: two full rows were removed, one of them from under a row that
\* is neither full nor empty, and the bottom row was not full.
ClearedTwoRowsUnderStack ==
    /\ ret.fn = "clearRows"
    /\ ret.value.cleared = 2
    /\ \E y \in 1..MaxRows :
          /\ NotFullRow(call.board[y])
          /\ call.board[y] # [x \in 1..ProbeCols |-> EmptyCell]
          /\ \E k \in (y + 1)..MaxRows : FullRow(call.board[k])
    /\ NotFullRow(call.board[MaxRows])

(***************************************************************************)
(* rotate on every 0/1 matrix of the sides the catalogue has (2, 3, 4),    *)
(* applied up to MaxTurns times in a row.                                  *)
(***************************************************************************)
MaxTurns == 4

Sides == {Len(getTetromino(t).shape) : t \in TetrominoType}

Matrices == UNION {[1..N -> [1..N -> {0, 1}]] : N \in Sides}

InitRotate ==
    /\ Unmounted
    /\ call \in [fn : {"rotate"}, matrix : Matrices]
    /\ ret = NoCall

\* rotate applied to the matrix of the call, then to its own result
CallRotate ==
    /\ IF ret = NoCall
       THEN ret' = [fn |-> "rotate", value |-> rotate(call.matrix), times |-> 1]
       ELSE /\ ret.times < MaxTurns
            /\ ret' = [fn |-> "rotate", value |-> rotate(ret.value), times |-> ret.times + 1]
    /\ UNCHANGED <<call, gameVars>>

NextRotate == CallRotate

SpecRotate == InitRotate /\ [][NextRotate]_vars

\* C28: for a square matrix of side 2, 3 or 4, every result of rotate is
\* square of the same side, and the fourth result in a row is the matrix
\* itself.
RotateFourTimesIsIdentity ==
    ret.fn = "rotate" =>
        /\ Len(ret.value) = Len(call.matrix)
        /\ \A y \in 1..Len(ret.value) : Len(ret.value[y]) = Len(call.matrix)
        /\ ret.times = 4 => ret.value = call.matrix

\* C28 witness: a matrix of side 4 that a quarter turn changes (its top left
\* and top right corners differ) has been rotated four times.
RotatedFourTimes ==
    /\ ret.fn = "rotate"
    /\ ret.times = 4
    /\ Len(call.matrix) = 4
    /\ call.matrix[1][1] # call.matrix[1][4]

\* C29: rotate turns the matrix a quarter turn clockwise: the cell at column
\* x, row y of the result is the cell at column y, row N - 1 - x of the input.
RotateIsQuarterTurnClockwise ==
    ret.fn = "rotate" /\ ret.times = 1 =>
        LET N == Len(call.matrix)
        IN  \A x \in 0..(N - 1), y \in 0..(N - 1) :
                ret.value[y + 1][x + 1] = call.matrix[(N - 1 - x) + 1][y + 1]

\* C29 witness: the T piece, stem up, has been rotated once and its stem
\* points to the right.
TRotatedPointsRight ==
    /\ ret.fn = "rotate"
    /\ ret.times = 1
    /\ call.matrix = getTetromino("T").shape
    /\ ret.value = <<<<0, 1, 0>>, <<0, 1, 1>>, <<0, 1, 0>>>>

(***************************************************************************)
(* createBagRNG on its own, over generators of numbers in [0, 1): the      *)
(* closures of randomSeededRNG for the seeds 0..MaxSeed, and generators    *)
(* that repeat a cycle of at most MaxPeriod numbers taken from 0, 1/7, ..  *)
(* 6/7 (rounded up to a multiple of 2^-32) and 1 - 2^-32, which make       *)
(* shuffle pick every index j in 0..i for every i.                         *)
(***************************************************************************)
MaxPeriod == 4
MaxDraws == 14

\* the least multiple of 2^-32 that is >= k / n, as a word
Fraction(k, n) ==
    <<(k * 65536) \div n, ((((k * 65536) % n) * 65536) + (n - 1)) \div n>>

GeneratorValues ==
    {Fraction(k, Len(TETROMINO_SEQUENCE)) : k \in 0..(Len(TETROMINO_SEQUENCE) - 1)}
        \cup {<<65535, 65535>>}

CycleGenerators ==
    {<<values, 1, "cycle">> :
        values \in UNION {[1..p -> GeneratorValues] : p \in 1..MaxPeriod}}

Generators == CycleGenerators \cup {randomSeededRNG(s) : s \in 0..MaxSeed}

\* the closure createBagRNG(rng) returns, with the pieces it has returned
Randomizer(a) == [rng |-> a, bag |-> createBagRNG, drawn |-> <<>>]

\* next() of a randomizer
NextOf(r) ==
    CHOOSE n \in {[rng |-> d.rng, bag |-> d.bag, drawn |-> Append(r.drawn, d.type)] :
                     d \in {BagNext(r.bag, r.rng)}} : TRUE

InitBag ==
    /\ Unmounted
    /\ call \in [fn : {"createBagRNG"}, rng : Generators]
    /\ ret = Randomizer(call.rng)

CallNext ==
    /\ Len(ret.drawn) < MaxDraws
    /\ ret' = NextOf(ret)
    /\ UNCHANGED <<call, gameVars>>

NextBag == CallNext

SpecBag == InitBag /\ [][NextBag]_vars

\* C22: whatever numbers in [0, 1) the generator returns, the draws numbered
\* 7k + 1 .. 7k + 7 of a randomizer contain each of the seven types exactly
\* once.
BagWindowsAreFair ==
    LET n == Len(TETROMINO_SEQUENCE)
    IN  \A k \in 0..((Len(ret.drawn) \div n) - 1) :
            {ret.drawn[(n * k) + i] : i \in 1..n} = TetrominoType

\* C22 witness: a generator that is not a Mulberry32 closure has filled two
\* windows, in two different orders.
TwoFairWindowsDrawn ==
    LET n == Len(TETROMINO_SEQUENCE)
    IN  /\ call.rng \in CycleGenerators
        /\ Len(ret.drawn) = 2 * n
        /\ SubSeq(ret.drawn, 1, n) # SubSeq(ret.drawn, n + 1, 2 * n)

(***************************************************************************)
(* Two randomizers, each made of its own randomSeededRNG(seed) closure,    *)
(* with the same seed; their next() are called in any order.               *)
(***************************************************************************)
InitTwin ==
    /\ Unmounted
    /\ call \in [fn : {"twin"}, seed : 0..MaxSeed]
    /\ ret = [first |-> Randomizer(randomSeededRNG(call.seed)),
              second |-> Randomizer(randomSeededRNG(call.seed))]

DrawFirst ==
    /\ Len(ret.first.drawn) < MaxDraws
    /\ ret' = [ret EXCEPT !.first = NextOf(@)]
    /\ UNCHANGED <<call, gameVars>>

\* A second randomizer made of the first one's generator closure.
DrawSecondFromSharedGenerator ==
    /\ Len(ret.second.drawn) < MaxDraws
    /\ \E r \in {NextOf([ret.second EXCEPT !.rng = ret.first.rng])} :
           ret' = [ret EXCEPT !.second = r, !.first.rng = r.rng]
    /\ UNCHANGED <<call, gameVars>>

DrawSecond ==
    /\ Len(ret.second.drawn) < MaxDraws
    /\ ret' = [ret EXCEPT !.second = NextOf(@)]
    /\ UNCHANGED <<call, gameVars>>

NextTwin ==
    \/ DrawFirst
    \/ DrawSecond

SpecTwin == InitTwin /\ [][NextTwin]_vars

FirstRestart ==
    [s \in {SeedOf(g) : g \in Started} |->
        CHOOSE t \in {<<g.piece.type, g.nextPieceType, g.bag>> :
                         g \in {initGameFrom(Mounted(s).rng)}} : TRUE]

\* C24: a restarted session has its own generator state: its pieces do not
\* depend on how many pieces the session before it drew.  The first restart
\* of a game mounted with a given seed starts the same session whether it
\* comes right after the mount or later.
RestartedSessionIgnoresDraws ==
    [][session = 0 /\ session' = 1 =>
          <<piece'.type, nextPieceType', bag'>> = FirstRestart[mountSeed]]_vars

\* C30: between two restarts the score never decreases.
ScoreNeverDecreasesInSession ==
    [][session' = session => score' >= score]_vars

\* C30 witness: a lock has cleared a row and raised the score.
ScoreRaisedByClear ==
    /\ last.res = "lock"
    /\ last.rows > 0
    /\ score > GameBeforeClear.score

\* C31: between two restarts no step lowers lines or level, whatever values
\* the handler that runs has captured.
LinesAndLevelNeverDecrease ==
    [][session' = session => lines' >= lines /\ level' >= level]_vars

BoardWithoutFullRow ==
    /\ Len(board) = 20
    /\ \A y \in 1..Len(board) :
          /\ Len(board[y]) = 10
          /\ \E x \in 1..10 : ~board[y][x].filled

\* C36 witness: a lock has completed a row, which clearRows has removed: the
\* board has fewer filled cells than the snapshot it came from, plus a piece.
RowRemovedFromBoard ==
    /\ last.res = "lock"
    /\ last.rows > 0
    /\ Cardinality({c \in (1..20) \X (1..10) : board[c[1]][c[2]].filled})
          < Cardinality({c \in (1..20) \X (1..10) :
                            GameBeforeClear.board[c[1]][c[2]].filled})

\* the filled cells of a board, as <<column, row>> counted from 0
FilledCells(b) ==
    {c \in (0..(BOARD_WIDTH - 1)) \X (0..(BOARD_HEIGHT - 1)) : b[c[2] + 1][c[1] + 1].filled}

\* C32: with no input, on an empty board, a tick moves an O piece in column 4
\* one row down while it is above row 18; the tick at row 18 locks it, which
\* leaves four filled cells, in rows 18-19 and columns 4-5, score and lines 0
\* and status running.
OPieceFallsAndLocksOnFloor ==
    [][ (/\ TimerStep
         /\ inputs = 0
         /\ FilledCells(board) = {}
         /\ piece.type = "O" /\ piece.pos.x = 4
         /\ status = "running" /\ score = 0 /\ lines = 0) =>
            IF piece.pos.y < 18
            THEN /\ piece' = [piece EXCEPT !.pos = Down(piece.pos)]
                 /\ board' = board
            ELSE /\ piece.pos.y = 18
                 /\ FilledCells(board') = {4, 5} \X {18, 19}
                 /\ score' = 0 /\ lines' = 0 /\ status' = "running" ]_vars

\* C32 witness: the O piece spawned at x = 4, y = 0 on the empty board has
\* been locked by the 19th tick, at row 18, without any input.
OPieceLockedOnFloor ==
    /\ inputs = 0
    /\ fired = 19
    /\ last.res = "lock" /\ last.y = 18
    /\ piece.type = "O" /\ piece.pos = [x |-> 4, y |-> 18]
    /\ Cardinality(FilledCells(board)) = 4

\* C34: within a session a piece is locked once and replaced by one spawn:
\* a spawn makes the pending next type the active piece and the next draw of
\* the bag the new next type, no other step changes the type of the active
\* piece, the next type or the bag, and no lock runs while the spawn of an
\* earlier lock of the session is still to come.
PiecesFollowBagDraws ==
    [][ session' = session =>
          /\ IF TimerStep /\ last'.res = "spawn"
             THEN /\ piece'.type = nextPieceType
                  /\ \E d \in {BagNext(bag, rng)} :
                         nextPieceType' = d.type /\ bag' = d.bag
             ELSE /\ piece'.type = piece.type
                  /\ nextPieceType' = nextPieceType
                  /\ bag' = bag
          /\ LockStep =>
                \A i \in DOMAIN pending :
                    ~(pending[i].kind = "spawn" /\ pending[i].session = session) ]_vars

\* C35: the filled cells of the board are 4 for each piece locked in the
\* session less 10 for each line counted: a session starts with no filled
\* cell and no line, a lock adds 4 cells and removes 10 for each line it
\* adds to lines, and no other step changes the filled cells or lines.
CellsConserved ==
    [][ IF session' # session
        THEN FilledCells(board') = {} /\ lines' = 0
        ELSE IF LockStep
        THEN Cardinality(FilledCells(board'))
                = (Cardinality(FilledCells(board)) + 4) - (10 * (lines' - lines))
        ELSE FilledCells(board') = FilledCells(board) /\ lines' = lines ]_vars

(***************************************************************************)
(* The game left alone: no key is pressed and no button touched, and a     *)
(* timeout that is due is run.  The behaviours start in the states of Init *)
(* and in fresh mounts with the seeds up to MaxQuietSeed.                  *)
(***************************************************************************)
MaxQuietSeed == 4

InitQuiet ==
    \/ Init
    \/ \E s \in 0..MaxQuietSeed : StartWith(Mounted(s), s)

NextQuiet ==
    \/ GravityTimer
    \/ PendingTimer

SpecQuiet ==
    InitQuiet /\ [][NextQuiet]_vars /\ WF_vars(GravityTimer) /\ WF_vars(PendingTimer)

\* a piece is at its spawn row after k timer callbacks, and no input has come
AtSpawnRow(k) ==
    /\ inputs = 0
    /\ fired = k
    /\ status = "running"
    /\ piece # NullPiece /\ piece.pos.y = 0
    /\ pending = <<>>

\* C37: with no input and the timers firing, a piece at its spawn row is
\* locked within 20 ticks, and then the next piece is spawned or the game is
\* over: within 21 timer callbacks the game is over or a spawn has run.
GravityLocksEveryPiece ==
    \A k \in 0..(MaxTimers - 21) :
        AtSpawnRow(k) ~>
            /\ fired <= k + 21
            /\ \/ status = "gameover"
               \/ fired > k /\ last.res = "spawn"

\* C37 witness: without input the first piece, O, has fallen from the spawn
\* row to the floor, has been locked by the 19th tick and replaced by the
\* spawn that followed.
FirstPieceLockedThenSpawn ==
    /\ inputs = 0
    /\ fired = 20
    /\ last.res = "spawn" /\ last.lockY = 18
    /\ status = "running"

=============================================================================
